---- MODULE Spec2Model ----
(***************************************************************************)
(* Model of the two-player relay server in src/server.py: the session     *)
(* handlers (ws_handler), matchmaking (try_matchmaking,                    *)
(* create_room_with_pair), teardown (remove_client), the input processor   *)
(* (apply_input) and the snapshot task (snapshot_loop).                    *)
(*                                                                         *)
(* The server runs on one asyncio event loop: a task runs without          *)
(* interruption from one await that suspends to the next.  Every action    *)
(* below is one such run.  Every `await ws.send(...)` and every            *)
(* `await asyncio.gather(...)` of at least one send is taken as a point    *)
(* where other tasks may run before the awaiting task goes on.             *)
(*                                                                         *)
(* Positions are floats in the source; the model uses integers and keeps   *)
(* the non-finite floats (nan, inf, -inf) as separate values.              *)
(* make_room_id draws 24 random bits; the model mints a fresh id for each  *)
(* room (the id collision the source does not check for is left out).      *)
(***************************************************************************)
EXTENDS Integers, Sequences, FiniteSets, TLC

\* ------------------------------------------------------------- bounds
\* Connections that arrive under SpecMatch (sessions and disconnects only).
NumConns == 4
\* Highest tick the snapshot task drives a room to.
MaxTick == 2
\* Number of inbound messages the session handlers receive in total.
MaxMsgs == 1

\* Number of connections that close (Disconnect closes whatever the count).
MaxCloses == 2

\* Number of connections the chat host accepts
NumChat == 2

\* Number of lines handed to the chat host's broadcast
MaxLines == 2

\* ---------------------------------------------------- program constants
MAX_ROOM_SIZE == 2
MAX_MOVE_PER_INPUT == 8
WORLD_MAX == 5000
SPAWN_X_P1 == 180
SPAWN_X_P2 == 620
SPAWN_Y == 300
DEFAULT_HP == 100
DEFAULT_MANA == 100

Conns == 1..NumConns
PlayerIds == <<"p1", "p2">>

VARIABLES
    pc,            \* where each session handler is suspended
    closed,        \* connections whose transport has closed or errored
    sent_at_close, \* per connection: how many sends it had taken when it closed
    loc,           \* locals a handler keeps across its awaits
    queue,         \* the matchmaking queue (a set)
    player_index,  \* connection -> PlayerConn
    rooms,         \* keys of the room registry
    heap,          \* room id -> Room object (outlives its registry entry)
    next_room,     \* next fresh room id
    sent,          \* per connection: the messages the server sent to it
    snap,          \* the snapshot task: its position and the rooms left
    nmsgs,         \* inbound messages received so far
    last,          \* the payload the receive loop handled most recently
    hist,          \* bookkeeping of what happened to each connection
    clients,       \* chat host: the list self._clients
    chat_pc,       \* chat host: where each thread is
    bc,            \* chat host: the locals of each thread's broadcast call
    peer_gone,     \* chat host: connections whose peer has closed
    sock_closed,   \* chat host: connections the host has closed
    delivered,     \* chat host: per connection, the lines sent to it
    nlines         \* chat host: lines handed to broadcast so far

serverVars == <<pc, closed, sent_at_close, loc, queue, player_index, rooms, heap,
                next_room, sent, snap, nmsgs, last, hist>>

chatVars == <<clients, chat_pc, bc, peer_gone, sock_closed, delivered, nlines>>

vars == <<serverVars, chatVars>>

\* ------------------------------------------------------ dict helpers
DictPop(d, k) == [x \in (DOMAIN d) \ {k} |-> d[x]]

DictPut(d, k, v) == [x \in (DOMAIN d) \cup {k} |-> IF x = k THEN v ELSE d[x]]

EmptyDict == [x \in {} |-> 0]

\* ----------------------------------------------------------- records
PlayerState(x, y) == [x |-> x, y |-> y, hp |-> DEFAULT_HP, mana |-> DEFAULT_MANA]

PlayerConn(ws, player_id, room_id) ==
    [ws |-> ws, player_id |-> player_id, room_id |-> room_id]

Room(room_id) ==
    [room_id |-> room_id,
     players |-> EmptyDict,
     state   |-> [tick |-> 0, players |-> EmptyDict]]

NoState == [tick |-> 0, players |-> EmptyDict]

\* An outbound message (the fields a message type lacks are left blank).
Msg(type, player_id, room_id, state, ts) ==
    [type |-> type, playerId |-> player_id, roomId |-> room_id,
     state |-> state, ts |-> ts]

NoLoc == [a |-> 0, b |-> 0, room |-> 0]

NoHist == [matched |-> 0, removed |-> 0, pid |-> "none", room |-> 0]

\* ------------------------------------------------------------- sends
Members(room) == {room.players[k].ws : k \in DOMAIN room.players}

\* ws.send raises once the connection has closed.
SendFails(ws) == closed[ws]

\* safe_send: one ws.send of one message to one connection.  The log takes
\* every call, the failed ones too: the sends a closed connection holds
\* beyond sent_at_close are the ones that failed.
safe_send(s, ws, m) == [s EXCEPT ![ws] = Append(@, m)]

\* Mutant of safe_send_raises: the except clause is missing.
safe_send_uncaught(ws) == SendFails(ws)

\* Whether safe_send raises to its caller: `except Exception: pass`
\* swallows the failure of the send.
safe_send_raises(ws) == FALSE

\* broadcast: the payload is serialised once and sent to every member the
\* room has at the call; failures are collected, not raised.
broadcast(s, room, m) ==
    [c \in Conns |->
        IF c \in Members(room) THEN Append(s[c], m)
        ELSE s[c]]

\* Whether broadcast suspends: it returns at once for a room without players.
BroadcastSuspends(room) == DOMAIN room.players # {}

\* Mutant of broadcast_raises: gather without return_exceptions.
broadcast_raises_first(room) == \E c \in Members(room) : SendFails(c)

\* Whether broadcast raises to its caller: gather(..., return_exceptions=True)
\* returns the exceptions of the failed sends in its result list.
broadcast_raises(room) == FALSE

\* --------------------------------------------------------- matchmaking
make_room_id == next_room

\* Mutant of create_room_with_pair: the state of p2 is not created.
create_room_without_p2_state(room_id, a, b) ==
    [room_id |-> room_id,
     players |-> DictPut(DictPut(EmptyDict, PlayerIds[1],
                                 PlayerConn(a, PlayerIds[1], room_id)),
                         PlayerIds[2], PlayerConn(b, PlayerIds[2], room_id)),
     state   |-> [tick |-> 0,
                  players |-> DictPut(EmptyDict, PlayerIds[1],
                                      PlayerState(SPAWN_X_P1, SPAWN_Y))]]

create_room_with_pair(room_id, a, b) ==
    [room_id |-> room_id,
     players |-> DictPut(DictPut(EmptyDict, PlayerIds[1],
                                 PlayerConn(a, PlayerIds[1], room_id)),
                         PlayerIds[2], PlayerConn(b, PlayerIds[2], room_id)),
     state   |-> [tick |-> 0,
                  players |-> DictPut(DictPut(EmptyDict, PlayerIds[1],
                                              PlayerState(SPAWN_X_P1, SPAWN_Y)),
                                      PlayerIds[2], PlayerState(SPAWN_X_P2, SPAWN_Y))]]

\* Mutant of WelcomeMsg: every welcome names the first slot.
WelcomeMsgFirstSlot(player_id, room_id) == Msg("welcome", "p1", room_id, NoState, 0)

WelcomeMsg(player_id, room_id) == Msg("welcome", player_id, room_id, NoState, 0)

MatchFoundMsg(room_id) == Msg("match_found", "p1,p2", room_id, NoState, 0)

\* Mutant of TooFewQueued: the comparison off by one.
TooFewQueuedOffByOne(q) == Cardinality(q) <= 2

\* if len(queue) < 2: return
TooFewQueued(q) == Cardinality(q) < 2

\* Mutant of QueueAfterPops: b is read from the queue but left in it.
QueueAfterOnePop(q, a, b) == q \ {a}

\* The queue after a = queue.pop() and b = queue.pop().
QueueAfterPops(q, a, b) == q \ {a, b}

\* Mutant of Connect: queue.add runs before the queue_joined send, so the
\* handler suspends between the add and the pairing.
ConnectAddsFirst(c) ==
    /\ pc[c] = "idle"
    /\ \A d \in Conns : d < c => pc[d] # "idle"
    /\ pc' = [pc EXCEPT ![c] = "queue_joined"]
    /\ queue' = queue \cup {c}
    /\ sent' = safe_send(sent, c, Msg("queue_joined", "none", 0, NoState, 0))
    /\ UNCHANGED <<closed, sent_at_close, loc, player_index, rooms, heap, next_room,
                   snap, chatVars, nmsgs, last, hist>>

\* A new connection: ws_handler starts and sends queue_joined.  Connections
\* are numbered in the order they arrive.
Connect(c) ==
    /\ pc[c] = "idle"
    /\ \A d \in Conns : d < c => pc[d] # "idle"
    /\ pc' = [pc EXCEPT ![c] = IF safe_send_raises(c) THEN "crashed"
                                ELSE "queue_joined"]
    /\ sent' = safe_send(sent, c, Msg("queue_joined", "none", 0, NoState, 0))
    /\ UNCHANGED <<closed, sent_at_close, loc, queue, player_index, rooms, heap, next_room,
                   snap, chatVars, nmsgs, last, hist>>

\* queue.add(ws) and try_matchmaking up to its first send.  queue.pop()
\* takes an arbitrary element of the set, twice.
Enqueue(c) ==
    /\ pc[c] = "queue_joined"
    /\ LET q == queue \cup {c}
       IN  IF TooFewQueued(q)
           THEN /\ queue' = q
                /\ pc' = [pc EXCEPT ![c] = "recv"]
                /\ hist' = hist
                /\ UNCHANGED <<loc, player_index, rooms, heap, next_room, sent>>
           ELSE \E a \in q : \E b \in q \ {a} :
                LET room_id == make_room_id
                    room == create_room_with_pair(room_id, a, b)
                IN  /\ queue' = QueueAfterPops(q, a, b)
                    /\ heap' = DictPut(heap, room_id, room)
                    /\ rooms' = rooms \cup {room_id}
                    /\ player_index' = DictPut(DictPut(player_index, a, room.players["p1"]),
                                               b, room.players["p2"])
                    /\ next_room' = next_room + 1
                    /\ sent' = safe_send(sent, a, WelcomeMsg("p1", room_id))
                    /\ loc' = [loc EXCEPT ![c] = [a |-> a, b |-> b, room |-> room_id]]
                    /\ pc' = [pc EXCEPT ![c] = IF safe_send_raises(a) THEN "crashed"
                                                ELSE "welcome_a"]
                    /\ hist' = [hist EXCEPT ![a].matched = @ + 1, ![a].pid = "p1",
                                            ![a].room = room_id,
                                            ![b].matched = @ + 1, ![b].pid = "p2",
                                            ![b].room = room_id]
    /\ UNCHANGED <<closed, sent_at_close, snap, chatVars, nmsgs, last>>

\* Mutant of WelcomeB: the welcome to b is never sent.
WelcomeBSkipped(c) ==
    /\ pc[c] = "welcome_a"
    /\ pc' = [pc EXCEPT ![c] = "welcome_b"]
    /\ UNCHANGED <<closed, sent_at_close, loc, queue, player_index, rooms, heap, next_room,
                   sent, snap, chatVars, nmsgs, last, hist>>

\* try_matchmaking after the welcome to a: the welcome to b.
WelcomeB(c) ==
    /\ pc[c] = "welcome_a"
    /\ sent' = safe_send(sent, loc[c].b, WelcomeMsg("p2", loc[c].room))
    /\ pc' = [pc EXCEPT ![c] = IF safe_send_raises(loc[c].b) THEN "crashed"
                                ELSE "welcome_b"]
    /\ UNCHANGED <<closed, sent_at_close, loc, queue, player_index, rooms, heap, next_room,
                   snap, chatVars, nmsgs, last, hist>>

\* try_matchmaking after the welcome to b: broadcast of match_found.
MatchFound(c) ==
    /\ pc[c] = "welcome_b"
    /\ LET room == heap[loc[c].room]
       IN  /\ sent' = broadcast(sent, room, MatchFoundMsg(room.room_id))
           /\ IF broadcast_raises(room)
              THEN /\ pc' = [pc EXCEPT ![c] = "crashed"]
                   /\ loc' = loc
              ELSE IF BroadcastSuspends(room)
              THEN /\ pc' = [pc EXCEPT ![c] = "match_found"]
                   /\ loc' = loc
              ELSE /\ pc' = [pc EXCEPT ![c] = "recv"]
                   /\ loc' = [loc EXCEPT ![c] = NoLoc]
    /\ UNCHANGED <<closed, sent_at_close, queue, player_index, rooms, heap, next_room,
                   snap, chatVars, nmsgs, last, hist>>

\* try_matchmaking returns; the handler enters its receive loop.
MatchDone(c) ==
    /\ pc[c] = "match_found"
    /\ pc' = [pc EXCEPT ![c] = "recv"]
    /\ loc' = [loc EXCEPT ![c] = NoLoc]
    /\ UNCHANGED <<closed, sent_at_close, queue, player_index, rooms, heap, next_room,
                   sent, snap, chatVars, nmsgs, last, hist>>

\* The peer closes the connection, or the transport fails.
Close(c) ==
    /\ pc[c] \notin {"idle", "done", "crashed"}
    /\ ~closed[c]
    /\ Cardinality({d \in Conns : closed[d]}) < MaxCloses
    /\ closed' = [closed EXCEPT ![c] = TRUE]
    /\ sent_at_close' = [sent_at_close EXCEPT ![c] = Len(sent[c])]
    /\ UNCHANGED <<pc, loc, queue, player_index, rooms, heap, next_room,
                   sent, snap, chatVars, nmsgs, last, hist>>

\* ------------------------------------------------------------ teardown
PlayerLeftMsg(player_id, room_id) == Msg("player_left", player_id, room_id, NoState, 0)

\* Mutant of RoomWithout: the player's state is dropped, its slot is not.
RoomWithoutStateOnly(room, player_id) ==
    [room EXCEPT !.state.players = DictPop(@, player_id)]

\* Mutant of RoomWithout: the player's slot is dropped, its state is not.
RoomWithoutSlotOnly(room, player_id) ==
    [room EXCEPT !.players = DictPop(@, player_id)]

\* room.players.pop(player_id); room.state['players'].pop(player_id)
RoomWithout(room, player_id) ==
    [room EXCEPT !.players = DictPop(@, player_id),
                 !.state.players = DictPop(@, player_id)]

\* Mutant of RoomsAfterLeave: the room is dropped at every departure.
RoomsAfterLeaveAlways(rs, room) == rs \ {room.room_id}

\* if not room.players: rooms.pop(room.room_id, None)
RoomsAfterLeave(rs, room) ==
    IF DOMAIN room.players = {} THEN rs \ {room.room_id} ELSE rs

\* remove_client(ws), run on the log s, up to its first suspension (the
\* player_left broadcast) or, when nothing suspends, to its end.
remove_client_after(s, ws) ==
    /\ queue' = queue \ {ws}
    /\ hist' = [hist EXCEPT ![ws].removed = @ + 1]
    /\ IF ws \notin DOMAIN player_index
       THEN /\ pc' = [pc EXCEPT ![ws] = "done"]
            /\ sent' = s
            /\ UNCHANGED <<player_index, rooms, heap, loc>>
       ELSE LET conn == player_index[ws]
            IN  /\ player_index' = DictPop(player_index, ws)
                /\ IF conn.room_id \notin rooms
                   THEN /\ pc' = [pc EXCEPT ![ws] = "done"]
                        /\ sent' = s
                        /\ UNCHANGED <<rooms, heap, loc>>
                   ELSE LET room == RoomWithout(heap[conn.room_id], conn.player_id)
                        IN  /\ heap' = [heap EXCEPT ![conn.room_id] = room]
                            /\ sent' = broadcast(s, room,
                                         PlayerLeftMsg(conn.player_id, room.room_id))
                            /\ IF broadcast_raises(room)
                               THEN /\ pc' = [pc EXCEPT ![ws] = "crashed"]
                                    /\ loc' = loc
                                    /\ rooms' = rooms
                               ELSE IF BroadcastSuspends(room)
                               THEN /\ pc' = [pc EXCEPT ![ws] = "player_left"]
                                    /\ loc' = [loc EXCEPT ![ws] =
                                                 [NoLoc EXCEPT !.room = room.room_id]]
                                    /\ rooms' = rooms
                               ELSE /\ pc' = [pc EXCEPT ![ws] = "done"]
                                    /\ loc' = loc
                                    /\ rooms' = RoomsAfterLeave(rooms, room)

\* remove_client(ws) on the log as it stands.
remove_client(ws) == remove_client_after(sent, ws)

\* The receive loop ends because the connection closed or errored: the
\* finally clause of ws_handler runs remove_client.
Leave(c) ==
    /\ pc[c] = "recv"
    /\ closed[c]
    /\ remove_client(c)
    /\ UNCHANGED <<closed, sent_at_close, next_room, snap, chatVars, nmsgs, last>>

\* The connection closes while its handler waits in the receive loop, and
\* the handler goes to its finally clause at once.
Disconnect(c) ==
    /\ pc[c] = "recv"
    /\ ~closed[c]
    /\ closed' = [closed EXCEPT ![c] = TRUE]
    /\ sent_at_close' = [sent_at_close EXCEPT ![c] = Len(sent[c])]
    /\ remove_client(c)
    /\ UNCHANGED <<next_room, snap, chatVars, nmsgs, last>>

\* remove_client after its broadcast: drop the room when it is empty.
LeaveDone(c) ==
    /\ pc[c] = "player_left"
    /\ rooms' = RoomsAfterLeave(rooms, heap[loc[c].room])
    /\ pc' = [pc EXCEPT ![c] = "done"]
    /\ loc' = [loc EXCEPT ![c] = NoLoc]
    /\ UNCHANGED <<closed, sent_at_close, queue, player_index, heap, next_room, sent,
                   snap, chatVars, nmsgs, last, hist>>

\* -------------------------------------------------------- float values
\* A float of the source: a finite number, or nan, inf, -inf.
Num(n) == [k |-> "num", n |-> n]

NaN == [k |-> "nan", n |-> 0]

PosInf == [k |-> "inf", n |-> 0]

NegInf == [k |-> "ninf", n |-> 0]

\* u < v on floats: every comparison with nan is false.
Lt(u, v) ==
    CASE u.k = "nan" \/ v.k = "nan" -> FALSE
      [] u.k = "ninf" -> v.k # "ninf"
      [] u.k = "inf"  -> FALSE
      [] OTHER        -> v.k = "inf" \/ (v.k = "num" /\ u.n < v.n)

\* Python's min(a, b) and max(a, b): the first argument unless the second
\* is strictly smaller (larger).
PyMin(a, b) == IF Lt(b, a) THEN b ELSE a

PyMax(a, b) == IF Lt(a, b) THEN b ELSE a

FAdd(u, v) ==
    CASE u.k = "num" /\ v.k = "num" -> Num(u.n + v.n)
      [] u.k = "nan" \/ v.k = "nan" -> NaN
      [] u.k = "num" -> v
      [] v.k = "num" -> u
      [] u.k = v.k   -> u
      [] OTHER       -> NaN

\* A JSON value found under 'dx' or 'dy':
\*   num   a number                      nan, inf, ninf  NaN, Infinity, -Infinity
\*   str   a string that is no number    null            null
\*   huge  an integer too big for a float
\*   absent  the key is missing (msg.get's default 0.0 is used)
JNum(n) == [k |-> "num", n |-> n]

JVal(k) == [k |-> k, n |-> 0]

\* float(v): [ok, val]; ok is false where float() raises.
ToFloat(v) ==
    CASE v.k = "num"    -> [ok |-> TRUE, val |-> Num(v.n)]
      [] v.k = "absent" -> [ok |-> TRUE, val |-> Num(0)]
      [] v.k = "nan"    -> [ok |-> TRUE, val |-> NaN]
      [] v.k = "inf"    -> [ok |-> TRUE, val |-> PosInf]
      [] v.k = "ninf"   -> [ok |-> TRUE, val |-> NegInf]
      [] OTHER          -> [ok |-> FALSE, val |-> Num(0)]

\* Mutant of ClampDelta: the lower clamp is missing.
ClampDeltaUpperOnly(d) == PyMin(Num(MAX_MOVE_PER_INPUT), d)

\* max(-MAX_MOVE_PER_INPUT, min(MAX_MOVE_PER_INPUT, d))
ClampDelta(d) == PyMax(Num(-MAX_MOVE_PER_INPUT), PyMin(Num(MAX_MOVE_PER_INPUT), d))

\* Mutant of ClampPos: the clamp at 0.0 is missing.
ClampPosUpperOnly(v) == PyMin(Num(WORLD_MAX), v)

\* max(0.0, min(5000.0, v))
ClampPos(v) == PyMax(Num(0), PyMin(Num(WORLD_MAX), v))

\* Mutant of InputDelta: a field that fails to coerce falls back to 0.0 on
\* its own, the other field is kept.
InputDeltaPerField(msg) ==
    LET fx == ToFloat(msg.dx)
        fy == ToFloat(msg.dy)
    IN  [dx |-> ClampDelta(fx.val), dy |-> ClampDelta(fy.val)]

\* The (dx, dy) apply_input uses: both 0.0 when either coercion raises.
InputDelta(msg) ==
    LET fx == ToFloat(msg.dx)
        fy == ToFloat(msg.dy)
    IN  IF fx.ok /\ fy.ok
        THEN [dx |-> ClampDelta(fx.val), dy |-> ClampDelta(fy.val)]
        ELSE [dx |-> ClampDelta(Num(0)), dy |-> ClampDelta(Num(0))]

\* Mutant of apply_input: the delta is applied to every player of the room.
apply_input_to_all(room, player_id, msg) ==
    IF player_id \notin DOMAIN room.state.players
    THEN room
    ELSE LET d == InputDelta(msg)
         IN  [room EXCEPT !.state.players =
                 [k \in DOMAIN @ |->
                     [@[k] EXCEPT !.x = ClampPos(FAdd(Num(@), d.dx)).n,
                                  !.y = ClampPos(FAdd(Num(@), d.dy)).n]]]

\* apply_input(room, player_id, msg): the room afterwards.
apply_input(room, player_id, msg) ==
    IF player_id \notin DOMAIN room.state.players
    THEN room
    ELSE LET p == room.state.players[player_id]
             d == InputDelta(msg)
         IN  [room EXCEPT !.state.players[player_id] =
                 [p EXCEPT !.x = ClampPos(FAdd(Num(p.x), d.dx)).n,
                           !.y = ClampPos(FAdd(Num(p.y), d.dy)).n]]

\* ------------------------------------------------------ inbound messages
\* A received payload: text that does not parse, text that parses to a
\* list, number, string or null, or text that parses to a mapping.
Payload(form, type, dx, dy, ts) ==
    [form |-> form, type |-> type, dx |-> dx, dy |-> dy, ts |-> ts]

NoVal == JVal("absent")

\* json.loads(raw) raises on text that is not JSON.
JsonParses(raw) == raw.form # "unparseable"

\* msg.get exists only on a mapping.
IsMapping(raw) == raw.form = "mapping"

\* Before the first payload: no connection, no payload.
NoLast == [conn |-> 0, raw |-> Payload("none", "none", NoVal, NoVal, 0)]

\* Mutant of PongMsg: the client's token is not echoed.
PongMsgNoEcho(ts) == Msg("pong", "none", 0, NoState, 0)

PongMsg(ts) == Msg("pong", "none", 0, NoState, ts)

\* One turn of the receive loop of ws_handler on the payload raw.
Receive(c, raw) ==
    /\ pc[c] = "recv"
    /\ ~closed[c]
    /\ nmsgs < MaxMsgs
    /\ nmsgs' = nmsgs + 1
    /\ last' = [conn |-> c, raw |-> raw]
    /\ UNCHANGED <<closed, sent_at_close, next_room, snap, chatVars>>
    /\ IF ~JsonParses(raw)
       THEN \* except Exception: continue
            UNCHANGED <<pc, loc, queue, player_index, rooms, heap, sent, hist>>
       ELSE IF ~IsMapping(raw)
       THEN \* msg.get raises AttributeError outside the inner try: the loop
            \* is left and the finally clause runs remove_client
            remove_client(c)
       ELSE IF raw.type = "ping"
       THEN IF safe_send_raises(c)
            THEN \* the exception leaves the loop; the finally clause runs
                 remove_client_after(safe_send(sent, c, PongMsg(raw.ts)), c)
            ELSE /\ sent' = safe_send(sent, c, PongMsg(raw.ts))
                 /\ pc' = [pc EXCEPT ![c] = "pong"]
                 /\ UNCHANGED <<loc, queue, player_index, rooms, heap, hist>>
       ELSE IF c \notin DOMAIN player_index
       THEN UNCHANGED <<pc, loc, queue, player_index, rooms, heap, sent, hist>>
       ELSE IF player_index[c].room_id \notin rooms
       THEN UNCHANGED <<pc, loc, queue, player_index, rooms, heap, sent, hist>>
       ELSE IF raw.type = "input"
       THEN /\ heap' = [heap EXCEPT ![player_index[c].room_id] =
                           apply_input(@, player_index[c].player_id, raw)]
            /\ UNCHANGED <<pc, loc, queue, player_index, rooms, sent, hist>>
       ELSE UNCHANGED <<pc, loc, queue, player_index, rooms, heap, sent, hist>>

\* The pong was sent; back to the receive loop.
PongDone(c) ==
    /\ pc[c] = "pong"
    /\ pc' = [pc EXCEPT ![c] = "recv"]
    /\ UNCHANGED <<closed, sent_at_close, loc, queue, player_index, rooms, heap, next_room,
                   sent, snap, chatVars, nmsgs, last, hist>>

\* -------------------------------------------------------- snapshot task
\* Mutant of SnapshotMsg: the payload is built before the increment.
SnapshotMsgBeforeTick(room) ==
    Msg("snapshot", "none", room.room_id, [room.state EXCEPT !.tick = @ - 1], 0)

SnapshotMsg(room) == Msg("snapshot", "none", room.room_id, room.state, 0)

\* Mutant of Tick: the counter is written back without the increment.
TickStuck(room) == [room EXCEPT !.state.tick = @]

\* room.state['tick'] = int(room.state.get('tick', 0)) + 1
Tick(room) == [room EXCEPT !.state.tick = @ + 1]

SetMin(S) == CHOOSE x \in S : \A y \in S : x <= y

RECURSIVE SortedSeq(_)
SortedSeq(S) == IF S = {} THEN <<>> ELSE <<SetMin(S)>> \o SortedSeq(S \ {SetMin(S)})

\* list(rooms.values()): the registry's rooms in insertion order.
RoomList == SortedSeq(rooms)

\* The for loop of snapshot_loop over the rooms in todo, up to the first
\* broadcast that suspends (a broadcast to a room without players returns
\* at once) or to the end of the list.
RECURSIVE SnapRun(_, _, _)
SnapRun(todo, h, s) ==
    IF todo = <<>>
    THEN [heap |-> h, sent |-> s, snap |-> [pc |-> "sleep", todo |-> <<>>]]
    ELSE LET r == Head(todo)
             room == Tick(h[r])
             h1 == [h EXCEPT ![r] = room]
         IN  IF broadcast_raises(room)
             THEN [heap |-> h1, sent |-> broadcast(s, room, SnapshotMsg(room)),
                   snap |-> [pc |-> "dead", todo |-> Tail(todo)]]
             ELSE IF BroadcastSuspends(room)
             THEN [heap |-> h1, sent |-> broadcast(s, room, SnapshotMsg(room)),
                   snap |-> [pc |-> "snapshot", todo |-> Tail(todo)]]
             ELSE SnapRun(Tail(todo), h1, s)

\* asyncio.sleep returns: a pass over the rooms begins.
SnapWake ==
    /\ snap.pc = "sleep"
    /\ rooms # {}
    /\ \A r \in rooms : heap[r].state.tick < MaxTick
    /\ LET res == SnapRun(RoomList, heap, sent)
       IN  /\ heap' = res.heap
           /\ sent' = res.sent
           /\ snap' = res.snap
    /\ UNCHANGED <<pc, closed, sent_at_close, loc, queue, player_index, rooms, next_room,
                   nmsgs, last, hist, chatVars>>

\* A snapshot broadcast completed: the pass goes on with the next room.
SnapResume ==
    /\ snap.pc = "snapshot"
    /\ LET res == SnapRun(snap.todo, heap, sent)
       IN  /\ heap' = res.heap
           /\ sent' = res.sent
           /\ snap' = res.snap
    /\ UNCHANGED <<pc, closed, sent_at_close, loc, queue, player_index, rooms, next_room,
                   nmsgs, last, hist, chatVars>>

\* ------------------------------------------------------- specification
\* ---------------------------------------------------------------- chat host
\* The TCP chat host of server_state.py.  Its threads are the accept
\* thread, one receive thread per accepted connection, and the UI thread,
\* which calls broadcast with no excluded client.  Thread 0 is the UI
\* thread; thread c > 0 is the receive thread of connection c.

ChatConns == 1..NumChat

ChatThreads == 0..NumChat

\* exclude=None
NoExclude == 0

NoBc == [todo |-> <<>>, alive |-> <<>>, exclude |-> NoExclude, text |-> [from |-> 0, n |-> 0]]

ChatInit ==
    /\ clients = <<>>
    /\ chat_pc = [t \in ChatThreads |-> IF t = 0 THEN "ready" ELSE "unaccepted"]
    /\ bc = [t \in ChatThreads |-> NoBc]
    /\ peer_gone = [c \in ChatConns |-> FALSE]
    /\ sock_closed = [c \in ChatConns |-> FALSE]
    /\ delivered = [c \in ChatConns |-> <<>>]
    /\ nlines = 0

\* list.remove(conn) after the test "conn in self._clients"
ListRemove(l, c) ==
    IF \E i \in 1..Len(l) : l[i] = c
    THEN LET i == CHOOSE i \in 1..Len(l) : l[i] = c /\ \A j \in 1..(i - 1) : l[j] # c
         IN  SubSeq(l, 1, i - 1) \o SubSeq(l, i + 1, Len(l))
    ELSE l

\* _accept_loop: accept, append to the list, start the receive thread.
\* Connections arrive in the order of their numbers.
ChatAccept(c) ==
    /\ chat_pc[c] = "unaccepted"
    /\ \A d \in ChatConns : d < c => chat_pc[d] # "unaccepted"
    /\ clients' = Append(clients, c)
    /\ chat_pc' = [chat_pc EXCEPT ![c] = "recv"]
    /\ UNCHANGED <<bc, peer_gone, sock_closed, delivered, nlines>>
    /\ UNCHANGED serverVars

\* broadcast, up to the copy of the list the loop iterates over.
broadcast_begin(t, from, exclude) ==
    /\ nlines < MaxLines
    /\ nlines' = nlines + 1
    /\ bc' = [bc EXCEPT ![t] = [todo |-> clients, alive |-> <<>>, exclude |-> exclude,
                                text |-> [from |-> from, n |-> nlines + 1]]]
    /\ chat_pc' = [chat_pc EXCEPT ![t] = "bcast"]

\* _client_loop: a line arrives and is handed to broadcast, excluding the sender.
ChatLine(c) ==
    /\ chat_pc[c] = "recv"
    /\ ~sock_closed[c]
    /\ broadcast_begin(c, c, c)
    /\ UNCHANGED <<clients, peer_gone, sock_closed, delivered>>
    /\ UNCHANGED serverVars

\* The UI thread calls broadcast (join announcement, local message).
ChatUiBroadcast ==
    /\ chat_pc[0] = "ready"
    /\ broadcast_begin(0, 0, NoExclude)
    /\ UNCHANGED <<clients, peer_gone, sock_closed, delivered>>
    /\ UNCHANGED serverVars

\* The outcomes of sendall on connection c: it raises on a socket the host
\* has closed, and may raise once the peer has gone.
SendallOk(c) ==
    IF sock_closed[c] THEN {FALSE}
    ELSE IF peer_gone[c] THEN {TRUE, FALSE}
    ELSE {TRUE}

\* broadcast: one iteration of the loop over the copied list.
ChatSend(t) ==
    /\ chat_pc[t] = "bcast"
    /\ bc[t].todo # <<>>
    /\ LET c == Head(bc[t].todo)
           rest == Tail(bc[t].todo)
       IN  IF bc[t].exclude # NoExclude /\ c = bc[t].exclude
           THEN /\ bc' = [bc EXCEPT ![t].todo = rest, ![t].alive = Append(@, c)]
                /\ UNCHANGED <<delivered, sock_closed>>
           ELSE \E ok \in SendallOk(c) :
                    IF ok
                    THEN /\ delivered' = [delivered EXCEPT ![c] = Append(@, bc[t].text)]
                         /\ bc' = [bc EXCEPT ![t].todo = rest, ![t].alive = Append(@, c)]
                         /\ UNCHANGED sock_closed
                    ELSE /\ sock_closed' = [sock_closed EXCEPT ![c] = TRUE]
                         /\ bc' = [bc EXCEPT ![t].todo = rest]
                         /\ UNCHANGED delivered
    /\ UNCHANGED <<clients, chat_pc, peer_gone, nlines>>
    /\ UNCHANGED serverVars

\* The list the end of broadcast leaves in self._clients.
broadcast_result(t) == bc[t].alive

\* broadcast: the loop is over, the list is rebound to the clients sent to.
ChatBroadcastEnd(t) ==
    /\ chat_pc[t] = "bcast"
    /\ bc[t].todo = <<>>
    /\ clients' = broadcast_result(t)
    /\ chat_pc' = [chat_pc EXCEPT ![t] = IF t = 0 THEN "ready" ELSE "recv"]
    /\ bc' = [bc EXCEPT ![t] = NoBc]
    /\ UNCHANGED <<peer_gone, sock_closed, delivered, nlines>>
    /\ UNCHANGED serverVars

\* The peer of an accepted connection closes it.
ChatPeerClose(c) ==
    /\ chat_pc[c] \in {"recv", "bcast"}
    /\ ~peer_gone[c]
    /\ peer_gone' = [peer_gone EXCEPT ![c] = TRUE]
    /\ UNCHANGED <<clients, chat_pc, bc, sock_closed, delivered, nlines>>
    /\ UNCHANGED serverVars

\* _client_loop: recv returns no data or raises; the finally block closes
\* the socket and removes the connection from the list.
ChatClientEnd(c) ==
    /\ chat_pc[c] = "recv"
    /\ peer_gone[c] \/ sock_closed[c]
    /\ sock_closed' = [sock_closed EXCEPT ![c] = TRUE]
    /\ clients' = ListRemove(clients, c)
    /\ chat_pc' = [chat_pc EXCEPT ![c] = "done"]
    /\ UNCHANGED <<bc, peer_gone, delivered, nlines>>
    /\ UNCHANGED serverVars

Init ==
    /\ ChatInit
    /\ pc = [c \in Conns |-> "idle"]
    /\ closed = [c \in Conns |-> FALSE]
    /\ sent_at_close = [c \in Conns |-> 0]
    /\ loc = [c \in Conns |-> NoLoc]
    /\ queue = {}
    /\ player_index = EmptyDict
    /\ rooms = {}
    /\ heap = EmptyDict
    /\ next_room = 1
    /\ sent = [c \in Conns |-> <<>>]
    /\ snap = [pc |-> "sleep", todo |-> <<>>]
    /\ nmsgs = 0
    /\ last = NoLast
    /\ hist = [c \in Conns |-> NoHist]

\* The payloads the handlers are given.
Payloads ==
    { Payload("unparseable", "none", NoVal, NoVal, 0),
      Payload("list", "none", NoVal, NoVal, 0),
      Payload("mapping", "ping", NoVal, NoVal, 7),
      Payload("mapping", "input", JNum(100), JNum(-3), 0),
      Payload("mapping", "input", JVal("str"), JNum(5), 0),
      Payload("mapping", "chat", NoVal, NoVal, 0) }

\* The whole server around one room: the connections that form it, their
\* messages and departures, and the snapshot task.
Next ==
    \/ \E c \in 1..MAX_ROOM_SIZE : Connect(c)
    \/ \E c \in Conns : Enqueue(c)
    \/ \E c \in Conns : WelcomeB(c)
    \/ \E c \in Conns : MatchFound(c)
    \/ \E c \in Conns : MatchDone(c)
    \/ \E c \in Conns : Disconnect(c)
    \/ \E c \in Conns : LeaveDone(c)
    \/ \E c \in Conns : \E raw \in Payloads : Receive(c, raw)
    \/ \E c \in Conns : PongDone(c)
    \/ SnapWake
    \/ SnapResume

Spec == Init /\ [][Next]_vars

\* Sessions and disconnects of NumConns connections whose clients send
\* nothing, without the snapshot task.
NextMatch ==
    \/ \E c \in 1..NumConns : Connect(c)
    \/ \E c \in Conns : Enqueue(c)
    \/ \E c \in Conns : WelcomeB(c)
    \/ \E c \in Conns : MatchFound(c)
    \/ \E c \in Conns : MatchDone(c)
    \/ \E c \in Conns : Disconnect(c)
    \/ \E c \in Conns : LeaveDone(c)

SpecMatch == Init /\ [][NextMatch]_vars

\* The input processor alone: a room of connections 1 and 2 whose handlers
\* wait in the receive loop, player p1 somewhere in the world, and clients
\* that send input messages only.
StartPositions == {3, SPAWN_X_P1, SPAWN_Y, WORLD_MAX - 4}

DeltaValues ==
    {JNum(n) : n \in {-100, -5, 0, 5, 100}}
        \cup {JVal(k) : k \in {"nan", "inf", "ninf", "str", "absent"}}

InputPayloads == {Payload("mapping", "input", dx, dy, 0) : dx \in DeltaValues, dy \in DeltaValues}

InitInput ==
    /\ ChatInit
    /\ pc = [c \in Conns |-> IF c \in {1, 2} THEN "recv" ELSE "idle"]
    /\ closed = [c \in Conns |-> FALSE]
    /\ sent_at_close = [c \in Conns |-> 0]
    /\ loc = [c \in Conns |-> NoLoc]
    /\ queue = {}
    /\ player_index = DictPut(DictPut(EmptyDict, 1, PlayerConn(1, "p1", 1)),
                              2, PlayerConn(2, "p2", 1))
    /\ rooms = {1}
    /\ \E x \in StartPositions : \E y \in StartPositions :
          heap = DictPut(EmptyDict, 1,
                         [create_room_with_pair(1, 1, 2) EXCEPT
                              !.state.players["p1"].x = x,
                              !.state.players["p1"].y = y])
    /\ next_room = 2
    /\ sent = [c \in Conns |->
                 IF c \in {1, 2}
                 THEN <<Msg("queue_joined", "none", 0, NoState, 0),
                        WelcomeMsg(PlayerIds[c], 1), MatchFoundMsg(1)>>
                 ELSE <<>>]
    /\ snap = [pc |-> "sleep", todo |-> <<>>]
    /\ nmsgs = 0
    /\ last = NoLast
    /\ hist = [c \in Conns |->
                 IF c \in {1, 2}
                 THEN [matched |-> 1, removed |-> 0, pid |-> PlayerIds[c], room |-> 1]
                 ELSE NoHist]

NextInput == \E c \in Conns : \E raw \in InputPayloads : Receive(c, raw)

SpecInput == InitInput /\ [][NextInput]_vars

\* A standing room of connections 1 and 2, both in their receive loops at
\* their spawns, their messages and departures, and the snapshot task,
\* which the event loop wakes when its sleep is over and resumes when its
\* broadcast is done.
InitRoom ==
    /\ ChatInit
    /\ pc = [c \in Conns |-> IF c \in {1, 2} THEN "recv" ELSE "idle"]
    /\ closed = [c \in Conns |-> FALSE]
    /\ sent_at_close = [c \in Conns |-> 0]
    /\ loc = [c \in Conns |-> NoLoc]
    /\ queue = {}
    /\ player_index = DictPut(DictPut(EmptyDict, 1, PlayerConn(1, "p1", 1)),
                              2, PlayerConn(2, "p2", 1))
    /\ rooms = {1}
    /\ heap = DictPut(EmptyDict, 1, create_room_with_pair(1, 1, 2))
    /\ next_room = 2
    /\ sent = [c \in Conns |->
                 IF c \in {1, 2}
                 THEN <<Msg("queue_joined", "none", 0, NoState, 0),
                        WelcomeMsg(PlayerIds[c], 1), MatchFoundMsg(1)>>
                 ELSE <<>>]
    /\ snap = [pc |-> "sleep", todo |-> <<>>]
    /\ nmsgs = 0
    /\ last = NoLast
    /\ hist = [c \in Conns |->
                 IF c \in {1, 2}
                 THEN [matched |-> 1, removed |-> 0, pid |-> PlayerIds[c], room |-> 1]
                 ELSE NoHist]

NextSnap ==
    \/ \E c \in Conns : \E raw \in Payloads : Receive(c, raw)
    \/ \E c \in Conns : PongDone(c)
    \/ \E c \in Conns : Disconnect(c)
    \/ \E c \in Conns : LeaveDone(c)
    \/ SnapWake
    \/ SnapResume

SpecSnap ==
    InitRoom /\ [][NextSnap]_vars /\ WF_vars(SnapWake) /\ WF_vars(SnapResume)

\* Two standing rooms, of connections 1, 2 and of connections 3, 4, all in
\* their receive loops, their messages, and the snapshot task.
InitTwoRooms ==
    /\ ChatInit
    /\ pc = [c \in Conns |-> IF c \in 1..4 THEN "recv" ELSE "idle"]
    /\ closed = [c \in Conns |-> FALSE]
    /\ sent_at_close = [c \in Conns |-> 0]
    /\ loc = [c \in Conns |-> NoLoc]
    /\ queue = {}
    /\ player_index = [c \in 1..4 |->
                         PlayerConn(c, PlayerIds[2 - (c % 2)], (c + 1) \div 2)]
    /\ rooms = {1, 2}
    /\ heap = DictPut(DictPut(EmptyDict, 1, create_room_with_pair(1, 1, 2)),
                      2, create_room_with_pair(2, 3, 4))
    /\ next_room = 3
    /\ sent = [c \in Conns |->
                 IF c \in 1..4
                 THEN <<Msg("queue_joined", "none", 0, NoState, 0),
                        WelcomeMsg(PlayerIds[2 - (c % 2)], (c + 1) \div 2),
                        MatchFoundMsg((c + 1) \div 2)>>
                 ELSE <<>>]
    /\ snap = [pc |-> "sleep", todo |-> <<>>]
    /\ nmsgs = 0
    /\ last = NoLast
    /\ hist = [c \in Conns |->
                 IF c \in 1..4
                 THEN [matched |-> 1, removed |-> 0, pid |-> PlayerIds[2 - (c % 2)],
                       room |-> (c + 1) \div 2]
                 ELSE NoHist]

NextTwoRooms ==
    \/ \E c \in Conns : \E raw \in Payloads : Receive(c, raw)
    \/ \E c \in Conns : PongDone(c)
    \/ \E c \in Conns : LeaveDone(c)
    \/ SnapWake
    \/ SnapResume

SpecTwoRooms == InitTwoRooms /\ [][NextTwoRooms]_vars

\* Connections that close at any point of their session while the snapshot
\* task runs: the handler of a closed connection goes on to its receive
\* loop, finds the connection closed there and runs its finally clause.
InitFail ==
    /\ ChatInit
    /\ pc = [c \in Conns |-> IF c = 1 THEN "recv" ELSE IF c = 2 THEN "done" ELSE "idle"]
    /\ closed = [c \in Conns |-> c = 2]
    /\ sent_at_close = [c \in Conns |-> IF c = 2 THEN 3 ELSE 0]
    /\ loc = [c \in Conns |-> NoLoc]
    /\ queue = {}
    /\ player_index = DictPut(EmptyDict, 1, PlayerConn(1, "p1", 1))
    /\ rooms = {1}
    /\ heap = DictPut(EmptyDict, 1, RoomWithout(create_room_with_pair(1, 1, 2), "p2"))
    /\ next_room = 2
    /\ sent = [c \in Conns |->
                 IF c \in {1, 2}
                 THEN <<Msg("queue_joined", "none", 0, NoState, 0),
                        WelcomeMsg(PlayerIds[c], 1), MatchFoundMsg(1)>>
                      \o (IF c = 1 THEN <<PlayerLeftMsg("p2", 1)>> ELSE <<>>)
                 ELSE <<>>]
    /\ snap = [pc |-> "sleep", todo |-> <<>>]
    /\ nmsgs = 0
    /\ last = NoLast
    /\ hist = [c \in Conns |->
                 IF c \in {1, 2}
                 THEN [matched |-> 1, removed |-> IF c = 2 THEN 1 ELSE 0,
                       pid |-> PlayerIds[c], room |-> 1]
                 ELSE NoHist]

NextFail ==
    \/ \E c \in 1..(2 * MAX_ROOM_SIZE) : Connect(c)
    \/ \E c \in Conns : Enqueue(c)
    \/ \E c \in Conns : WelcomeB(c)
    \/ \E c \in Conns : MatchFound(c)
    \/ \E c \in Conns : MatchDone(c)
    \/ \E c \in Conns : Close(c)
    \/ \E c \in Conns : Leave(c)
    \/ \E c \in Conns : LeaveDone(c)
    \/ SnapWake
    \/ SnapResume

SpecFail == InitFail /\ [][NextFail]_vars

\* What the event loop runs next of the handler of c once it is ready: a
\* send in flight completes or fails, and a closed connection ends the
\* receive loop.
HandlerStep(c) ==
    \/ Enqueue(c)
    \/ WelcomeB(c)
    \/ MatchFound(c)
    \/ MatchDone(c)
    \/ Leave(c)
    \/ LeaveDone(c)

\* Arrivals and closes around a standing room, without the snapshot task.
NextClose ==
    \/ \E c \in 1..NumConns : Connect(c)
    \/ \E c \in Conns : Close(c)
    \/ \E c \in Conns : HandlerStep(c)

\* The same with the event loop's scheduling: a handler that is ready to
\* run is run.
SpecClose ==
    InitFail /\ [][NextClose]_vars /\ \A c \in Conns : WF_vars(HandlerStep(c))

\* The chat host alone: the relay server stays as constructed.
NextChat ==
    \/ \E c \in ChatConns : ChatAccept(c)
    \/ \E c \in ChatConns : ChatLine(c)
    \/ ChatUiBroadcast
    \/ \E t \in ChatThreads : ChatSend(t)
    \/ \E t \in ChatThreads : ChatBroadcastEnd(t)
    \/ \E c \in ChatConns : ChatPeerClose(c)
    \/ \E c \in ChatConns : ChatClientEnd(c)

SpecChat == Init /\ [][NextChat]_vars

\* ================================================================ claims
Arrived == {c \in Conns : pc[c] # "idle"}

\* Every arrived handler has run queue.add and the pairing of try_matchmaking.
AllEnqueued == \A c \in Arrived : pc[c] # "queue_joined"

\* No connection has closed and no handler has run remove_client.
NoDisconnects == \A c \in Conns : ~closed[c] /\ hist[c].removed = 0

RoomsOf(c) == {r \in DOMAIN heap : c \in Members(heap[r])}

Types(c) == [i \in 1..Len(sent[c]) |-> sent[c][i].type]

HasMsg(c, type) == \E i \in 1..Len(sent[c]) : sent[c][i].type = type

InTryMatchmaking(c) == pc[c] \in {"welcome_a", "welcome_b", "match_found"}

\* C1: after an even number N of arrivals and no disconnect, once every
\* handler has enqueued and run the pairing, N/2 rooms have been formed, each
\* with two distinct members, no connection is in two rooms, and the queue
\* is empty.
C1_EvenArrivalsAllPaired ==
    (NoDisconnects /\ AllEnqueued /\ Cardinality(Arrived) % 2 = 0) =>
        /\ Cardinality(rooms) * 2 = Cardinality(Arrived)
        /\ (next_room - 1) * 2 = Cardinality(Arrived)
        /\ \A r \in rooms : /\ DOMAIN heap[r].players = {"p1", "p2"}
                            /\ Cardinality(Members(heap[r])) = 2
        /\ \A c \in Conns : Cardinality(RoomsOf(c)) <= 1
        /\ \A c \in Arrived : Cardinality(RoomsOf(c)) = 1
        /\ queue = {}

\* Four connections arrived, none left, and two rooms stand.
C1_Witness ==
    /\ NoDisconnects /\ AllEnqueued
    /\ Cardinality(Arrived) = 4
    /\ Cardinality(rooms) = 2

\* C2 as claimed: in a pairing, the connection that arrived first holds "p1"
\* and the one that arrived second holds "p2".  The handler that runs the
\* pairing is the one whose queue.add completed the pair; its partner was
\* queued before it, and connections are numbered in order of arrival.
C2_SlotsFollowArrival ==
    \A c \in Conns : InTryMatchmaking(c) =>
        \A d \in {loc[c].a, loc[c].b} \ {c} :
            d < c => (loc[c].a = d /\ loc[c].b = c)

\* C2 amended: in a pairing the connection popped first holds "p1" and the
\* one popped second "p2", whichever arrived first; each is sent a welcome
\* naming its own slot, and both welcomes carry the room's id.
C2_SlotsFollowPopOrder ==
    /\ \A c \in Conns : InTryMatchmaking(c) =>
          /\ hist[loc[c].a].pid = "p1" /\ hist[loc[c].b].pid = "p2"
          /\ hist[loc[c].a].room = loc[c].room /\ hist[loc[c].b].room = loc[c].room
          /\ heap[loc[c].room].room_id = loc[c].room
          /\ HasMsg(loc[c].a, "welcome")
          /\ pc[c] # "welcome_a" => HasMsg(loc[c].b, "welcome")
    /\ \A c \in DOMAIN player_index :
          /\ player_index[c].player_id = hist[c].pid
          /\ player_index[c].room_id = hist[c].room
    /\ \A c \in Conns : \A i \in 1..Len(sent[c]) :
          sent[c][i].type = "welcome" =>
              /\ sent[c][i].playerId = hist[c].pid
              /\ sent[c][i].roomId = hist[c].room

\* Both welcomes of a pairing are out, and the later arrival holds "p1".
C2_Witness ==
    \E c \in Conns :
        /\ pc[c] = "match_found"
        /\ loc[c].a = c /\ loc[c].b < c
        /\ HasMsg(loc[c].a, "welcome") /\ HasMsg(loc[c].b, "welcome")

\* C3: the first message to a connection is queue_joined; welcome and
\* match_found go only to connections that were paired (a connection waiting
\* in the queue has neither); a match_found follows the welcome of its room.
C3_MessageOrder ==
    \A c \in Conns :
        /\ Len(sent[c]) > 0 => sent[c][1].type = "queue_joined"
        /\ pc[c] # "idle" => Len(sent[c]) > 0
        /\ \A i \in 1..Len(sent[c]) :
              sent[c][i].type \in {"welcome", "match_found"} => hist[c].matched > 0
        /\ c \in queue => ~HasMsg(c, "welcome") /\ ~HasMsg(c, "match_found")
        /\ \A i \in 1..Len(sent[c]) :
              sent[c][i].type = "match_found" =>
                  \E j \in 1..(i - 1) : /\ sent[c][j].type = "welcome"
                                        /\ sent[c][j].roomId = sent[c][i].roomId

\* A third connection waits alone with only its queue_joined while the first
\* two have their match_found.
C3_Witness ==
    \E c \in queue :
        /\ Types(c) = <<"queue_joined">>
        /\ Cardinality({d \in Conns : HasMsg(d, "match_found")}) = 2

\* C4: a connection is in at most one room, is never both queued and
\* indexed, is matched at most once, and every player_index entry names a
\* registered room whose slot of that player id holds the connection.
C4_OneRoomPerConnection ==
    /\ \A c \in Conns :
          /\ Cardinality(RoomsOf(c)) <= 1
          /\ ~(c \in queue /\ c \in DOMAIN player_index)
          /\ hist[c].matched <= 1
    /\ \A c \in DOMAIN player_index :
          LET conn == player_index[c]
          IN  /\ conn.room_id \in rooms
              /\ conn.player_id \in DOMAIN heap[conn.room_id].players
              /\ heap[conn.room_id].players[conn.player_id].ws = c

\* Two rooms stand while a member of one of them is leaving.
C4_Witness ==
    /\ Cardinality(rooms) = 2
    /\ \E c \in Conns : pc[c] = "player_left"
    /\ Cardinality(DOMAIN player_index) = 3

\* A registered room has one or two members, and a room is registered
\* exactly while it has a member.
C5_RoomSizeInv ==
    /\ \A r \in rooms : Cardinality(DOMAIN heap[r].players) \in 1..MAX_ROOM_SIZE
    /\ \A r \in DOMAIN heap : r \in rooms <=> DOMAIN heap[r].players # {}

\* A step in which c leaves player_index takes c, and only c, out of its room.
C5_DepartureStep ==
    \A c \in DOMAIN player_index :
        c \notin DOMAIN player_index' =>
            LET r == player_index[c].room_id
            IN  /\ Members(heap'[r]) = Members(heap[r]) \ {c}
                /\ Cardinality(Members(heap'[r])) = Cardinality(Members(heap[r])) - 1
                /\ r \in rooms' <=> Members(heap'[r]) # {}

\* C5: at every point where another task can run a registered room has one
\* or two members; a departure takes exactly the departing member out of its
\* room, the room stays registered while a member remains and is
\* unregistered when the last one has left.
C5_RoomLifecycle == [](C5_RoomSizeInv) /\ [][C5_DepartureStep]_vars

\* The second member left, and the room was unregistered, while the first
\* member's remove_client is still suspended in its player_left broadcast.
C5_Witness ==
    \E c \in Conns :
        /\ pc[c] = "player_left"
        /\ loc[c].room \notin rooms
        /\ DOMAIN heap[loc[c].room].players = {}

\* A step in which c leaves player_index appends its player_left to the log
\* of each remaining member and leaves every other log as it was.
C6_DepartureStep ==
    \A c \in DOMAIN player_index :
        c \notin DOMAIN player_index' =>
            LET conn == player_index[c]
                remaining == Members(heap[conn.room_id]) \ {c}
            IN  \A d \in Conns :
                    sent'[d] = IF d \in remaining
                               THEN Append(sent[d], Msg("player_left", conn.player_id,
                                                        conn.room_id, NoState, 0))
                               ELSE sent[d]

\* A player_left a connection holds is about its own room and never about
\* itself.
C6_LogInv ==
    \A c \in Conns : \A i \in 1..Len(sent[c]) :
        sent[c][i].type = "player_left" =>
            /\ sent[c][i].roomId = hist[c].room
            /\ sent[c][i].playerId # hist[c].pid
            /\ sent[c][i].playerId \in {"p1", "p2"}

\* C6: a departure from a room sends player_left, with the departing
\* player's id and the room id, to each remaining member and to nobody else,
\* never to the departing connection; with no member remaining nothing is
\* sent.
C6_PlayerLeftToRemaining == [](C6_LogInv) /\ [][C6_DepartureStep]_vars

\* The remaining member holds the player_left of its partner, and the
\* partner who left holds none.
C6_Witness ==
    \E c \in Conns : \E d \in Conns :
        /\ c # d
        /\ hist[c].room = hist[d].room /\ hist[c].room # 0
        /\ pc[c] = "done" /\ ~HasMsg(c, "player_left")
        /\ HasMsg(d, "player_left")
        /\ d \in DOMAIN player_index

\* The ticks of the snapshots sent to c, in the order they were sent.
SnapTicks(c) ==
    LET snaps == SelectSeq(sent[c], LAMBDA m : m.type = "snapshot")
    IN  [i \in 1..Len(snaps) |-> snaps[i].state.tick]

\* The snapshots sent to a connection carry the ticks 1, 2, 3, ... of its
\* room, and a member has been sent every tick its room has reached.
C7_TickInv ==
    /\ \A c \in Conns :
          /\ \A i \in 1..Len(SnapTicks(c)) : SnapTicks(c)[i] = i
          /\ \A i \in 1..Len(sent[c]) :
                sent[c][i].type = "snapshot" => sent[c][i].roomId = hist[c].room
    /\ \A c \in DOMAIN player_index :
          Len(SnapTicks(c)) = heap[player_index[c].room_id].state.tick

\* A room's counter starts at 0 and a step moves it by +1 or not at all.
C7_TickStep ==
    /\ \A r \in DOMAIN heap :
          heap'[r].state.tick \in {heap[r].state.tick, heap[r].state.tick + 1}
    /\ \A r \in (DOMAIN heap') \ (DOMAIN heap) : heap'[r].state.tick = 0

\* C7: a room's tick starts at 0, each snapshot of a room carries the tick
\* of the previous one plus 1, and the ticks a recipient is sent are 1, 2,
\* 3, ...: strictly increasing, none repeated, whatever inputs, matches and
\* disconnects happen in between.
C7_TicksIncreaseByOne == [](C7_TickInv) /\ [][C7_TickStep]_vars

\* A member was sent ticks 1 and 2 after an input moved a player and after
\* its partner left.
C7_Witness ==
    \E c \in DOMAIN player_index :
        /\ SnapTicks(c) = <<1, 2>>
        /\ Cardinality(DOMAIN heap[player_index[c].room_id].players) = 1
        /\ heap[player_index[c].room_id].state.players[player_index[c].player_id].x
               \notin {SPAWN_X_P1, SPAWN_X_P2}

Abs(n) == IF n < 0 THEN -n ELSE n

\* No step moves a player by more than the cap, and dx = 100 takes p1 from
\* x = 180 to x = 188.
C8_MoveStep ==
    /\ \A r \in DOMAIN heap : \A k \in DOMAIN heap[r].state.players :
          k \in DOMAIN heap'[r].state.players =>
              /\ Abs(heap'[r].state.players[k].x - heap[r].state.players[k].x)
                     <= MAX_MOVE_PER_INPUT
              /\ Abs(heap'[r].state.players[k].y - heap[r].state.players[k].y)
                     <= MAX_MOVE_PER_INPUT
    /\ (/\ Receive(1, Payload("mapping", "input", JNum(100), JNum(0), 0))
        /\ heap[1].state.players["p1"].x = 180)
           => heap'[1].state.players["p1"].x = 188

\* C8: whatever dx and dy an input carries, apply_input changes x and y by
\* at most MAX_MOVE_PER_INPUT each; p1 at x = 180 sent dx = 100 ends at 188.
C8_MoveCapped == [][C8_MoveStep]_vars

\* p1 started at its spawn and one input took it by the full cap on x: the
\* only deltas offered beyond 5 on x exceed the cap (100, inf, nan).
C8_Witness ==
    /\ nmsgs = 1
    /\ heap[1].state.players["p1"].x = SPAWN_X_P1 + MAX_MOVE_PER_INPUT
    /\ heap[1].state.players["p1"].y = SPAWN_Y

\* Every stored position lies in [0, 5000] on both axes.
C9_InWorld ==
    \A r \in DOMAIN heap : \A k \in DOMAIN heap[r].state.players :
        /\ heap[r].state.players[k].x \in 0..WORLD_MAX
        /\ heap[r].state.players[k].y \in 0..WORLD_MAX

\* What the input just handled made of its sender's position: the clamped
\* delta is applied exactly where the sum stays in range, and a value in
\* range is left alone by the clamp.
C9_ExactInRange ==
    (nmsgs' = nmsgs + 1 /\ last'.raw.type = "input"
        /\ last'.conn \in DOMAIN player_index) =>
        LET conn == player_index[last'.conn]
            p == heap[conn.room_id].state.players[conn.player_id]
            q == heap'[conn.room_id].state.players[conn.player_id]
            d == InputDelta(last'.raw)
            nx == p.x + d.dx.n
            ny == p.y + d.dy.n
        IN  /\ nx \in 0..WORLD_MAX => q.x = nx
            /\ ny \in 0..WORLD_MAX => q.y = ny
            /\ q.x \in 0..WORLD_MAX /\ q.y \in 0..WORLD_MAX
            /\ ClampPos(Num(p.x)).n = p.x /\ ClampPos(Num(p.y)).n = p.y

\* C9: every stored position lies in [0, 5000] on both axes after any
\* inputs, and an input whose clamped delta keeps the position in range
\* applies the delta exactly (the clamp leaves an in-range value alone).
C9_PositionsInWorld == [](C9_InWorld) /\ [][C9_ExactInRange]_vars

\* One input drove p1 from inside the world onto both bounds: no start
\* position lies on a bound.
C9_Witness ==
    /\ nmsgs = 1
    /\ heap[1].state.players["p1"].x = 0
    /\ heap[1].state.players["p1"].y = WORLD_MAX

\* Receiving a payload that is no mapping leaves the handler in its receive
\* loop and the shared state as it was.
C10_DiscardStep ==
    \A c \in Conns : \A raw \in Payloads :
        (Receive(c, raw) /\ (~JsonParses(raw) \/ ~IsMapping(raw))) =>
            /\ pc'[c] = "recv"
            /\ hist'[c].removed = hist[c].removed
            /\ UNCHANGED <<queue, player_index, rooms, heap, sent>>

\* C10 as claimed: a payload that is no mapping, whether it fails to parse
\* or parses to a list, number, string or null, is discarded: the handler
\* stays in its receive loop, remove_client does not run, and the queue, the
\* registries and the rooms are unchanged.
C10_MalformedPayloadDiscarded == [][C10_DiscardStep]_vars

\* An input message one of whose deltas is present and is no number.
BadDelta(raw) ==
    /\ raw.form = "mapping" /\ raw.type = "input"
    /\ ~ToFloat(raw.dx).ok \/ ~ToFloat(raw.dy).ok

\* The handler that receives such a message moves nobody, sends nothing,
\* does not run remove_client and stays in its receive loop.
C11_BadDeltaStep ==
    (nmsgs' = nmsgs + 1 /\ BadDelta(last'.raw)) =>
        /\ heap' = heap
        /\ pc'[last'.conn] = "recv"
        /\ UNCHANGED <<closed, queue, player_index, rooms, sent, hist>>

\* C11: an input message from a room member whose dx or dy is present but
\* is no number moves the player on neither axis, also when the other delta
\* is a valid number; the message is not rejected and the session goes on.
C11_BadDeltaIsZero == [][C11_BadDeltaStep]_vars

\* Connection 1 (p1) sent dx = "a string", dy = 5 and p1 is still at its
\* spawn: no start position lies 5 away from another.
C11_Witness ==
    /\ nmsgs = 1
    /\ last.conn = 1
    /\ last.raw.dx = JVal("str") /\ last.raw.dy = JNum(5)
    /\ pc[1] = "recv"
    /\ heap[1].state.players["p1"].x = SPAWN_X_P1
    /\ heap[1].state.players["p1"].y = SPAWN_Y

\* The pongs sent to c so far.
Pongs(s, c) == SelectSeq(s[c], LAMBDA m : m.type = "pong")

\* The step just taken handled a ping.
PingHandled == nmsgs' = nmsgs + 1 /\ last'.raw.form = "mapping" /\ last'.raw.type = "ping"

\* A ping appends one pong with the ping's ts to its sender's log and
\* touches nothing else; no other step sends a pong.
C12_PingStep ==
    IF PingHandled
    THEN /\ sent' = [sent EXCEPT ![last'.conn] =
                        Append(@, Msg("pong", "none", 0, NoState, last'.raw.ts))]
         /\ UNCHANGED <<queue, player_index, rooms, heap, closed, hist>>
    ELSE \A c \in Conns : Pongs(sent', c) = Pongs(sent, c)

\* A handler is suspended in the send of a pong only after a ping of its
\* own connection, and the pong is then in that connection's log.
C12_PongInv ==
    \A c \in Conns :
        pc[c] = "pong" =>
            /\ Len(Pongs(sent, c)) > 0
            /\ last.conn = c => last.raw.type = "ping"
                                 /\ Pongs(sent, c)[Len(Pongs(sent, c))].ts = last.raw.ts

\* C12: every ping a handler receives is answered with exactly one pong to
\* the same connection carrying the ping's ts, whether the connection is
\* queued, in a room of two or alone in a room; handling it changes neither
\* the queue nor player_index nor any room.
C12_PingAnswered == [](C12_PongInv) /\ [][C12_PingStep]_vars

\* A connection left alone in its room holds the pong to its ping, ts = 7.
C12_Witness ==
    \E c \in DOMAIN player_index :
        /\ Members(heap[player_index[c].room_id]) = {c}
        /\ last.conn = c /\ last.raw.type = "ping"
        /\ Pongs(sent, c) = <<Msg("pong", "none", 0, NoState, 7)>>

\* The same for a connection still waiting in the queue.
C12_WitnessQueued ==
    \E c \in queue : Pongs(sent, c) = <<Msg("pong", "none", 0, NoState, 7)>>

\* The same for a member of a room of two.
C12_WitnessPaired ==
    \E c \in DOMAIN player_index :
        /\ Cardinality(Members(heap[player_index[c].room_id])) = 2
        /\ Pongs(sent, c) = <<Msg("pong", "none", 0, NoState, 7)>>

\* The sends made to c after it closed: each of them failed.
FailedSends(c) ==
    IF closed[c] THEN SubSeq(sent[c], sent_at_close[c] + 1, Len(sent[c])) ELSE <<>>

\* What the step just taken sent to c.
NewMsgs(c) == SubSeq(sent'[c], Len(sent[c]) + 1, Len(sent'[c]))

BroadcastTypes == {"match_found", "player_left", "snapshot"}

\* The rooms the snapshot task has before it in its pass.
SnapAhead == IF snap.pc = "sleep" THEN RoomList ELSE snap.todo

\* Neither the snapshot task nor a handler has been ended by an exception.
C13_NoTaskEnded ==
    /\ snap.pc \in {"sleep", "snapshot"}
    /\ \A c \in Conns : pc[c] # "crashed"

\* Within one broadcast every member of the room is sent the same message,
\* whether or not the send to another member failed.
C13_BroadcastStep ==
    \A r \in DOMAIN heap' : \A c \in Members(heap'[r]) : \A d \in Members(heap'[r]) :
        /\ \A i \in 1..Len(sent[c]) : sent'[c][i] = sent[c][i]
        /\ SelectSeq(NewMsgs(c), LAMBDA m : m.type \in BroadcastTypes)
               = SelectSeq(NewMsgs(d), LAMBDA m : m.type \in BroadcastTypes)

\* try_matchmaking goes from the welcome to a to the welcome to b and from
\* there to the match_found broadcast, whichever of a and b has closed.
C13_MatchmakingStep ==
    \A c \in Conns :
        /\ (pc[c] = "welcome_a" /\ pc'[c] # "welcome_a") =>
               /\ pc'[c] = "welcome_b"
               /\ NewMsgs(loc[c].b) = <<Msg("welcome", "p2", loc[c].room, NoState, 0)>>
        /\ (pc[c] = "welcome_b" /\ pc'[c] # "welcome_b") =>
               /\ pc'[c] \in {"match_found", "recv"}
               /\ \A d \in Members(heap[loc[c].room]) :
                      NewMsgs(d) = <<Msg("match_found", "p1,p2", loc[c].room, NoState, 0)>>

\* A step of the snapshot task ticks the rooms it passes, in the order of
\* its list, sends each member of a ticked room that has members the
\* snapshot of the new tick, and leaves the task asleep or in a broadcast.
C13_SnapshotStep ==
    snap' # snap =>
        LET n == Len(SnapAhead) - Len(snap'.todo)
        IN  /\ n >= 0
            /\ snap'.todo = SubSeq(SnapAhead, n + 1, Len(SnapAhead))
            /\ snap'.pc = "sleep" => snap'.todo = <<>>
            /\ \A i \in 1..n :
                  LET r == SnapAhead[i]
                  IN  /\ heap'[r].state.tick = heap[r].state.tick + 1
                      /\ \A c \in Members(heap[r]) :
                            NewMsgs(c) = <<Msg("snapshot", "none", r, heap'[r].state, 0)>>

\* C13: a failed send prevents no other send.  Within a broadcast the other
\* member is still sent the message; snapshot_loop ticks and broadcasts the
\* remaining rooms of the pass and of later passes; try_matchmaking sends
\* the other welcome and the match_found after a failed welcome; no failed
\* send ends the snapshot task or a handler.
C13_FailuresIsolated ==
    /\ [](C13_NoTaskEnded)
    /\ [][C13_BroadcastStep /\ C13_MatchmakingStep /\ C13_SnapshotStep]_vars

\* Connection 1 closed and its handler has not run since: both snapshots of
\* room 1 failed on it, and in both passes the room after it in the list
\* was ticked and both of its members were sent the snapshot.
C13_Witness ==
    /\ closed[1] /\ pc[1] = "recv"
    /\ Len(FailedSends(1)) = 2
    /\ \A i \in 1..2 : FailedSends(1)[i].type = "snapshot" /\ FailedSends(1)[i].state.tick = i
    /\ 2 \in rooms
    /\ Cardinality(Members(heap[2])) = 2
    /\ \A c \in Members(heap[2]) : SnapTicks(c) = <<1, 2>>
    /\ snap.pc = "sleep"

\* The welcome to a failed (a had closed before the pairing) and b holds
\* its welcome and the match_found, as a does.
C13_WitnessWelcome ==
    \E c \in Conns :
        /\ pc[c] = "match_found"
        /\ Len(FailedSends(loc[c].a)) = 2
        /\ FailedSends(loc[c].a)[1].type = "welcome"
        /\ FailedSends(loc[c].a)[2].type = "match_found"
        /\ HasMsg(loc[c].b, "welcome") /\ HasMsg(loc[c].b, "match_found")
        /\ ~closed[loc[c].b]

\* c is in no queue, index or room.
Absent(c) ==
    /\ c \notin queue
    /\ c \notin DOMAIN player_index
    /\ \A r \in DOMAIN heap : c \notin Members(heap[r])
    /\ hist[c].room # 0 =>
          hist[c].pid \notin DOMAIN heap[hist[c].room].state.players

\* remove_client has run at most once for a connection; it has run exactly
\* when the handler is in or past its finally clause, and then the
\* connection is absent everywhere.
C14_CleanupInv ==
    \A c \in Conns :
        /\ hist[c].removed <= 1
        /\ hist[c].removed = 1 <=> pc[c] \in {"player_left", "done"}
        /\ hist[c].removed = 1 => Absent(c)

\* Once absent after its cleanup, always absent.
C14_CleanupStep ==
    \A c \in Conns :
        /\ hist'[c].removed >= hist[c].removed
        /\ hist[c].removed = 1 => Absent(c)'

\* C14: for every connection that closes at any point of its session,
\* remove_client runs exactly once, and from then on the connection is in
\* no queue, in no player_index and in no room's players or player states;
\* with every suspended send completing or failing, the cleanup happens.
C14_CleanupOnce ==
    /\ [](C14_CleanupInv)
    /\ [][C14_CleanupStep]_vars
    /\ \A c \in Conns : closed[c] ~> (hist[c].removed = 1 /\ pc[c] = "done")

\* A connection closed as a member of a room of two, after its match_found;
\* its cleanup is over and its partner holds the player_left.
C14_Witness ==
    \E c \in Conns \ {1, 2} : \E d \in DOMAIN player_index :
        /\ closed[c] /\ pc[c] = "done" /\ hist[c].removed = 1
        /\ sent_at_close[c] >= 3
        /\ hist[d].room = hist[c].room
        /\ HasMsg(d, "player_left")

\* A connection closed while its queue_joined was being sent and was paired
\* afterwards; its cleanup is over.
C14_WitnessQueueJoined ==
    \E c \in Conns \ {1, 2} :
        /\ closed[c] /\ pc[c] = "done" /\ hist[c].removed = 1
        /\ sent_at_close[c] = 1 /\ hist[c].matched = 1

\* A connection closed while queued and was never paired; its cleanup is
\* over.
C14_WitnessQueued ==
    \E c \in Conns \ {1, 2} :
        /\ closed[c] /\ pc[c] = "done" /\ hist[c].removed = 1
        /\ hist[c].matched = 0

\* A connection closed while its own handler was between the two welcomes.
C14_WitnessInMatchmaking ==
    \E c \in Conns : closed[c] /\ pc[c] = "welcome_a" /\ sent_at_close[c] = 2

\* C15: at every point where a task can run, every room ever created, the
\* ones already out of the registry included, has the same keys in its
\* players mapping as in its player-state mapping, all among "p1", "p2".
C15_KeySetsMatch ==
    \A r \in DOMAIN heap :
        /\ DOMAIN heap[r].players = DOMAIN heap[r].state.players
        /\ DOMAIN heap[r].players \subseteq {"p1", "p2"}

\* Both members left while the snapshot task was suspended in the broadcast
\* of their room: the room is out of the registry, the task still holds it,
\* and both mappings are empty.
C15_Witness ==
    /\ snap.pc = "snapshot"
    /\ rooms = {}
    /\ \E r \in DOMAIN heap :
          /\ heap[r].state.tick >= 1
          /\ DOMAIN heap[r].players = {} /\ DOMAIN heap[r].state.players = {}

\* One member left: both mappings hold the key of the other.
C15_WitnessOneLeft ==
    \E r \in rooms :
        /\ DOMAIN heap[r].players = {"p2"} /\ DOMAIN heap[r].state.players = {"p2"}

Snapshots(c) == SelectSeq(sent[c], LAMBDA m : m.type = "snapshot")

\* A step that ticks a room sends each of its members one snapshot, the
\* same to all, carrying the new tick and the player states as they stood
\* before the step: nothing is applied between increment and payload.
C16_SnapshotStep ==
    \A r \in DOMAIN heap :
        heap'[r].state.tick # heap[r].state.tick =>
            /\ heap'[r].state = [heap[r].state EXCEPT !.tick = @ + 1]
            /\ \A c \in Members(heap[r]) :
                  NewMsgs(c) = <<Msg("snapshot", "none", r, heap'[r].state, 0)>>

\* Two snapshots of one room with the same tick are the same payload, and
\* a snapshot holds the states of exactly the players it was sent to or
\* their partners.
C16_SamePayloadInv ==
    \A c \in Conns : \A d \in Conns :
        \A i \in 1..Len(Snapshots(c)) : \A j \in 1..Len(Snapshots(d)) :
            (/\ Snapshots(c)[i].roomId = Snapshots(d)[j].roomId
             /\ Snapshots(c)[i].state.tick = Snapshots(d)[j].state.tick)
                => Snapshots(c)[i] = Snapshots(d)[j]

\* An input of c has moved its player off its spawn.
Moved(c) ==
    /\ last.conn = c /\ last.raw.type = "input"
    /\ c \in DOMAIN player_index
    /\ LET conn == player_index[c]
           p == heap[conn.room_id].state.players[conn.player_id]
       IN  <<p.x, p.y>> # <<IF conn.player_id = "p1" THEN SPAWN_X_P1 ELSE SPAWN_X_P2, SPAWN_Y>>

\* The position c's player has now is in a snapshot that every member of
\* its room holds.
Visible(c) ==
    LET conn == player_index[c]
        room == heap[conn.room_id]
    IN  \E i \in 1..Len(Snapshots(c)) :
            /\ conn.player_id \in DOMAIN Snapshots(c)[i].state.players
            /\ Snapshots(c)[i].state.players[conn.player_id]
                   = room.state.players[conn.player_id]
            /\ \A d \in Members(room) :
                   \E j \in 1..Len(Snapshots(d)) : Snapshots(d)[j] = Snapshots(c)[i]

\* C16: a snapshot carries the tick and all player states of its room as
\* they are when the tick is incremented and is the same payload for every
\* member; a position an input has changed shows in a later snapshot sent
\* to the members, unless the sender leaves the room first (the model's
\* snapshot task stops at tick MaxTick).
C16_SnapshotFaithful ==
    /\ [](C16_SamePayloadInv)
    /\ [][C16_SnapshotStep]_vars
    /\ \A c \in 1..MAX_ROOM_SIZE :
          (Moved(c) /\ heap[player_index[c].room_id].state.tick < MaxTick)
              ~> (c \notin DOMAIN player_index \/ Visible(c))

\* Connection 1 moved p1 after the first snapshot; the second snapshot,
\* held by both members, shows p1 where the input put it.
C16_Witness ==
    /\ Moved(1) /\ Visible(1)
    /\ Cardinality(Members(heap[1])) = 2
    /\ Len(Snapshots(1)) = 2
    /\ Snapshots(1)[1].state.players["p1"].x = SPAWN_X_P1
    /\ Snapshots(1)[2].state.players["p1"].x = SPAWN_X_P1 + MAX_MOVE_PER_INPUT

\* C17: at every point where another task can run, and so after every call
\* of try_matchmaking has returned or first suspended, fewer than two
\* connections wait in the queue, whatever the order of arrivals and
\* disconnects; a handler about to add itself finds at most one waiting,
\* and a waiting connection has not been paired.
C17_QueueBelowTwo ==
    /\ Cardinality(queue) < 2
    /\ \A c \in queue : c \notin DOMAIN player_index /\ hist[c].matched = 0

\* A queued connection left, the next two were paired, and the fourth
\* waits alone.
C17_Witness ==
    /\ Cardinality(queue) = 1
    /\ Cardinality(rooms) = 1
    /\ \E c \in Conns : hist[c].removed = 1 /\ hist[c].matched = 0
    /\ \A c \in queue : \A d \in Conns : pc[d] # "idle" => d <= c

\* The step just taken handled a message (a mapping) that is no ping.
NonPingHandled ==
    nmsgs' = nmsgs + 1 /\ last'.raw.form = "mapping" /\ last'.raw.type # "ping"

\* Such a message sends nothing and leaves the queue, player_index, the
\* registry and every handler as they are; it changes a room only when it
\* is an input of a room member, and then only x and y of the sender's own
\* player in the sender's own room.
C18_FrameStep ==
    NonPingHandled =>
        /\ UNCHANGED <<pc, closed, loc, queue, player_index, rooms, next_room,
                       sent, snap, hist>>
        /\ IF last'.raw.type = "input" /\ last'.conn \in DOMAIN player_index
           THEN LET conn == player_index[last'.conn]
                    r == conn.room_id
                    p == heap[r].state.players[conn.player_id]
                IN  /\ \A o \in (DOMAIN heap) \ {r} : heap'[o] = heap[o]
                    /\ DOMAIN heap' = DOMAIN heap
                    /\ heap'[r] = [heap[r] EXCEPT
                           !.state.players[conn.player_id] =
                               [p EXCEPT !.x = heap'[r].state.players[conn.player_id].x,
                                         !.y = heap'[r].state.players[conn.player_id].y]]
           ELSE heap' = heap

\* C18: a message that is no ping changes shared state only when it is an
\* input from a connection assigned to a room, and then only the x and y of
\* the sender's own player state: the other player, every hp and mana, the
\* tick, all memberships, the queue and every other room stay as they are;
\* from a queued connection, or with an unknown type, it changes nothing
\* and nothing is sent.
C18_NonPingFrame == [][C18_FrameStep]_vars

\* An input of connection 1 moved p1 on both axes and nothing else: p2 is
\* at its spawn, hp and mana are as created, nothing was sent for it.
C18_Witness ==
    /\ nmsgs = 1 /\ last.conn = 1 /\ last.raw.type = "input"
    /\ 1 \in rooms
    /\ DOMAIN heap[1].state.players = {"p1", "p2"}
    /\ heap[1].state.players["p1"] =
           [PlayerState(SPAWN_X_P1 + MAX_MOVE_PER_INPUT, SPAWN_Y - 3) EXCEPT !.hp = DEFAULT_HP]
    /\ heap[1].state.players["p2"] = PlayerState(SPAWN_X_P2, SPAWN_Y)
    /\ ~HasMsg(1, "pong")

\* An input and a message of unknown type from a queued connection: it
\* still waits and holds only its queue_joined.
C18_WitnessQueued ==
    \E c \in queue :
        /\ last.conn = c /\ last.raw.type \in {"input", "chat"}
        /\ Types(c) = <<"queue_joined">>

\* C19 as claimed: the welcome is the first message of its room a paired
\* connection is sent: every snapshot and every player_left in a log comes
\* after the welcome of the same room in that log.
C19_WelcomeFirst ==
    \A c \in Conns : \A i \in 1..Len(sent[c]) :
        sent[c][i].type \in {"snapshot", "player_left"} =>
            \E j \in 1..(i - 1) :
                /\ sent[c][j].type = "welcome"
                /\ sent[c][j].roomId = sent[c][i].roomId


\* Connections the chat host has accepted and that are still connected:
\* neither side has closed them, so no send to them has failed.
ChatConnected == {c \in ChatConns : chat_pc[c] \in {"recv", "bcast"}
                                      /\ ~peer_gone[c] /\ ~sock_closed[c]}

ChatListed == {clients[i] : i \in 1..Len(clients)}

\* C20: in the chat host, under any interleaving of the accept thread, the
\* receive threads and the callers of broadcast, every accepted client stays
\* in the host's client list until its own connection ends or a send to it
\* fails, and no line is echoed to the client it came from.
C20_ClientsStayListed ==
    /\ ChatConnected \subseteq ChatListed
    /\ \A c \in ChatConns : \A i \in 1..Len(delivered[c]) : delivered[c][i].from # c

====
